---- MODULE Spec2Model ----
(***************************************************************************)
(* Model of src/QKV_Attention.ipynb: the notebook's five functions         *)
(* (tokenize, embed, softmax, calculate_weights, attention_qkv) and the    *)
(* cells that call them.                                                   *)
(*                                                                         *)
(* Python values are tagged records.  A str is its sequence of characters, *)
(* a list its sequence of items, a dict a function from keys to values, an *)
(* ndarray a shape and its entries in row-major order.  Integers stand for *)
(* the numbers an array holds.                                             *)
(*                                                                         *)
(* A call of a function is an outcome: what it returned, what it raised,   *)
(* the values of its arguments when it ended, and the callees it invoked.  *)
(***************************************************************************)
EXTENDS Integers, Sequences, FiniteSets, TLC

VARIABLES sentence, token_mapping, embeddings, tokenized, embedded,
          queries, keys, values, call, prev

vars == <<sentence, token_mapping, embeddings, tokenized, embedded,
          queries, keys, values, call, prev>>

----------------------------------------------------------------------------
(* Bounds of the model.                                                    *)

\* longest sentence, in characters
MaxLen == 3
\* largest absolute value of an index a token mapping assigns
MaxTok == 3
\* most rows of an embedding table
MaxRows == 2
\* width of an embedding vector (300 in the notebook's data)
EmbedSize == 2
\* largest number of rows or columns of a queries, keys or values array
MaxDim == 2

----------------------------------------------------------------------------
(* Python values.                                                          *)

None == [tag |-> "None"]
Unset == [tag |-> "unset"]
Str(chars) == [tag |-> "str", chars |-> chars]
List(items) == [tag |-> "list", items |-> items]
Dict(map) == [tag |-> "dict", map |-> map]
NdArray(shape, data) == [tag |-> "ndarray", shape |-> shape, data |-> data]

Outcome(after, ret, exc, trace) ==
    [after |-> after, ret |-> ret, exc |-> exc, trace |-> trace]

RECURSIVE Sum(_)
Sum(s) == IF s = <<>> THEN 0 ELSE Head(s) + Sum(Tail(s))

\* x[i] of a 2-dimensional array, i counted from 0
Row(x, i) == SubSeq(x.data, i * x.shape[2] + 1, (i + 1) * x.shape[2])

\* np.zeros((r, c))
zeros(r, c) == NdArray(<<r, c>>, [k \in 1..(r * c) |-> 0])

----------------------------------------------------------------------------
(* tokenize                                                                *)

Alphabet == {"a", "B", " "}

\* str.lower, character by character
LowerChar(c) == IF c = "B" THEN "b" ELSE c

lower(chars) == [i \in 1..Len(chars) |-> LowerChar(chars[i])]

RECURSIVE SplitScan(_, _, _, _)
SplitScan(chars, sep, i, cur) ==
    IF i > Len(chars) THEN <<cur>>
    ELSE IF chars[i] = sep THEN <<cur>> \o SplitScan(chars, sep, i + 1, <<>>)
    ELSE SplitScan(chars, sep, i + 1, Append(cur, chars[i]))

\* str.split() with no separator: runs of spaces separate, no empty pieces
splitWhitespace(chars, sep) ==
    SelectSeq(SplitScan(chars, sep, 1, <<>>), LAMBDA w : w # <<>>)

\* str.split(sep): every occurrence of sep separates, empty pieces kept
split(chars, sep) == SplitScan(chars, sep, 1, <<>>)

\* a lookup that inserts the missing key, as collections.defaultdict does
getitemInserting(mapping, word) ==
    IF word \in DOMAIN mapping.map
    THEN [exc |-> "none", val |-> mapping.map[word], self |-> mapping]
    ELSE [exc |-> "KeyError", val |-> 0,
          self |-> Dict([w \in DOMAIN mapping.map \cup {word} |->
                            IF w = word THEN -1 ELSE mapping.map[w]])]

\* token_mapping[word] of a dict: the value, or KeyError; the dict is only read
getitem(mapping, word) ==
    IF word \in DOMAIN mapping.map
    THEN [exc |-> "none", val |-> mapping.map[word], self |-> mapping]
    ELSE [exc |-> "KeyError", val |-> 0, self |-> mapping]

RECURSIVE tokenizeLoop(_, _, _, _)
tokenizeLoop(words, i, acc, mapping) ==
    IF i > Len(words) THEN [tokenized |-> acc, token_mapping |-> mapping]
    ELSE LET r == getitem(mapping, words[i])
         IN  tokenizeLoop(words, i + 1,
                          Append(acc, IF r.exc = "KeyError" THEN -1 ELSE r.val),
                          r.self)

tokenize(sent, mapping) ==
    LET r == tokenizeLoop(split(lower(sent.chars), " "), 1, <<>>, mapping)
    IN  Outcome(<<sent, r.token_mapping>>, List(r.tokenized), "none", <<>>)

----------------------------------------------------------------------------
(* embed                                                                   *)

\* embeddings[token] for an integer token: negative indices count from the
\* end, an index outside -rows..rows-1 raises IndexError
indexRow(table, token) ==
    LET n == table.shape[1]
    IN  IF token >= 0 /\ token < n THEN [exc |-> "none", val |-> Row(table, token)]
        ELSE IF token < 0 /\ token >= -n
             THEN [exc |-> "none", val |-> Row(table, token + n)]
        ELSE [exc |-> "IndexError", val |-> <<>>]

\* the loop body without the test for the unknown-word token
embedRowNoSentinel(token, table, embed_size) == indexRow(table, token)

\* the value the loop body assigns to output[i]
embedRow(token, table, embed_size) ==
    IF token = -1 THEN [exc |-> "none", val |-> [k \in 1..embed_size |-> 0]]
    ELSE indexRow(table, token)

\* output[i] = row, i counted from 0
setRow(output, i, row) ==
    LET c == output.shape[2]
    IN  NdArray(output.shape,
                [k \in 1..Len(output.data) |->
                    IF k > i * c /\ k <= (i + 1) * c THEN row[k - i * c]
                    ELSE output.data[k]])

RECURSIVE embedLoop(_, _, _, _, _)
embedLoop(tokens, i, output, table, embed_size) ==
    IF i >= Len(tokens) THEN [exc |-> "none", output |-> output]
    ELSE LET r == embedRow(tokens[i + 1], table, embed_size)
         IN  IF r.exc # "none" THEN [exc |-> r.exc, output |-> output]
             ELSE embedLoop(tokens, i + 1, setRow(output, i, r.val), table, embed_size)

embed(tokens, table) ==
    IF Len(table.shape) < 2
    THEN Outcome(<<tokens, table>>, None, "IndexError", <<>>)
    ELSE LET embed_size == table.shape[2]
             r == embedLoop(tokens.items, 0, zeros(Len(tokens.items), embed_size),
                            table, embed_size)
         IN  IF r.exc # "none" THEN Outcome(<<tokens, table>>, None, r.exc, <<>>)
             ELSE Outcome(<<tokens, table>>, r.output, "none", <<>>)

----------------------------------------------------------------------------
(* softmax, calculate_weights, attention_qkv: the bodies the notebook has  *)

\* the body is the statement pass: the call returns None
softmax(x, axis) == Outcome(<<x, axis>>, None, "none", <<>>)

\* weights.sum(axis=1)[0] == 1, for whatever softmax returned
assertFirstRowSumsToOne(weights) ==
    IF weights.tag # "ndarray" THEN "AttributeError"
    ELSE IF Len(weights.shape) < 2 THEN "AxisError"
    ELSE IF weights.shape[1] = 0 THEN "IndexError"
    ELSE IF Sum(Row(weights, 0)) # 1 THEN "AssertionError"
    ELSE "none"

calculate_weights(q, k) ==
    LET dot == None
        w == softmax(dot, 1)
        e == IF w.exc # "none" THEN w.exc ELSE assertFirstRowSumsToOne(w.ret)
    IN  Outcome(<<q, k>>, None, e, <<"softmax">>)

\* the body is the statement pass: no callee is invoked, the call returns None
attention_qkv(q, k, v) == Outcome(<<q, k, v>>, None, "none", <<>>)

----------------------------------------------------------------------------
(* The inputs.                                                             *)

Sentences == UNION {[1..n -> Alphabet] : n \in 0..MaxLen}

Mappings ==
    {Dict(<<>>)} \cup
    {Dict((<<"a">> :> u) @@ (<<"b">> :> 0) @@ (<<>> :> 1) @@ (<<"B">> :> 2)) :
        u \in (-MaxTok)..MaxTok}

Table(r) == NdArray(<<r, EmbedSize>>, [k \in 1..(r * EmbedSize) |-> k])
Tables == {Table(r) : r \in 0..MaxRows}

Arr(r, c) == NdArray(<<r, c>>, [k \in 1..(r * c) |-> k])
Vec(n) == NdArray(<<n>>, [k \in 1..n |-> k])
Arrays == {Arr(r, c) : r \in 1..MaxDim, c \in 1..MaxDim} \cup {Vec(n) : n \in 1..MaxDim}

NoCall == [fn |-> "none", before |-> <<>>, after |-> <<>>, ret |-> None,
           exc |-> "none", trace |-> <<>>]

Init ==
    /\ \/ /\ sentence \in {Str(s) : s \in Sentences}
          /\ token_mapping \in Mappings
          /\ embeddings \in Tables
          /\ queries = Arr(1, 1) /\ keys = Arr(1, 1) /\ values = Arr(1, 1)
       \/ /\ sentence = Str(<<"a">>)
          /\ token_mapping = Dict(<<>>)
          /\ embeddings = Table(1)
          /\ queries \in Arrays /\ keys \in Arrays /\ values \in Arrays
    /\ tokenized = Unset
    /\ embedded = Unset
    /\ call = NoCall
    /\ prev = NoCall

----------------------------------------------------------------------------
(* The cells: one call each.                                               *)

Record(fn, before, o) ==
    [fn |-> fn, before |-> before, after |-> o.after, ret |-> o.ret,
     exc |-> o.exc, trace |-> o.trace]

\* the call before this one, when it was the same call with equal arguments
Earlier(fn, before) ==
    IF call.fn = fn /\ call.before = before THEN call ELSE NoCall

\* tokenized_en = tokenize(sentence_en, en_words)
CellTokenize ==
    LET o == tokenize(sentence, token_mapping)
    IN  /\ call' = Record("tokenize", <<sentence, token_mapping>>, o)
        /\ prev' = Earlier("tokenize", <<sentence, token_mapping>>)
        /\ sentence' = o.after[1]
        /\ token_mapping' = o.after[2]
        /\ tokenized' = IF o.exc = "none" THEN o.ret ELSE tokenized
        /\ UNCHANGED <<embeddings, embedded, queries, keys, values>>

\* embedded_en = embed(tokenized_en, en_embeddings)
CellEmbed ==
    /\ tokenized.tag = "list"
    /\ LET o == embed(tokenized, embeddings)
       IN  /\ call' = Record("embed", <<tokenized, embeddings>>, o)
           /\ prev' = Earlier("embed", <<tokenized, embeddings>>)
           /\ tokenized' = o.after[1]
           /\ embeddings' = o.after[2]
           /\ embedded' = IF o.exc = "none" THEN o.ret ELSE embedded
           /\ UNCHANGED <<sentence, token_mapping, queries, keys, values>>

\* the arrays a cell can pass on
ArrayGlobals ==
    {queries, keys, values} \cup (IF embedded.tag = "ndarray" THEN {embedded} ELSE {})

\* the argument lists of the notebook's calls: the embedded sentences, or
\* the queries, keys and values
QKVArguments ==
    {<<queries, keys, values>>} \cup
    (IF embedded.tag = "ndarray" THEN {<<embedded, embedded, embedded>>} ELSE {})

CellSoftmax ==
    \E x \in ArrayGlobals, axis \in {0, 1} :
        LET o == softmax(x, axis)
        IN  /\ call' = Record("softmax", <<x, axis>>, o)
            /\ prev' = Earlier("softmax", <<x, axis>>)
            /\ UNCHANGED <<sentence, token_mapping, embeddings, tokenized,
                           embedded, queries, keys, values>>

\* alignment = calculate_weights(embedded_fr, embedded_en)
CellCalculateWeights ==
    \E a \in QKVArguments :
        LET o == calculate_weights(a[1], a[2])
        IN  /\ call' = Record("calculate_weights", <<a[1], a[2]>>, o)
            /\ prev' = Earlier("calculate_weights", <<a[1], a[2]>>)
            /\ UNCHANGED <<sentence, token_mapping, embeddings, tokenized,
                           embedded, queries, keys, values>>

\* attention_qkv_result = attention_qkv(embedded_fr, embedded_en, embedded_en)
CellAttention ==
    \E a \in QKVArguments :
        LET o == attention_qkv(a[1], a[2], a[3])
        IN  /\ call' = Record("attention_qkv", a, o)
            /\ prev' = Earlier("attention_qkv", a)
            /\ UNCHANGED <<sentence, token_mapping, embeddings, tokenized,
                           embedded, queries, keys, values>>

Next ==
    \/ CellTokenize
    \/ CellEmbed
    \/ CellSoftmax
    \/ CellCalculateWeights
    \/ CellAttention

Spec == Init /\ [][Next]_vars

----------------------------------------------------------------------------
(* What the claims read of a call.                                         *)

Is2D(x) == x.tag = "ndarray" /\ Len(x.shape) = 2

Column(x, j) == [i \in 1..x.shape[1] |-> x.data[(i - 1) * x.shape[2] + j]]

\* each vector along the axis sums to 1: the columns for axis 0, the rows for axis 1
SumsToOneAlong(x, axis) ==
    IF axis = 1 THEN \A i \in 0..(x.shape[1] - 1) : Sum(Row(x, i)) = 1
    ELSE \A j \in 1..x.shape[2] : Sum(Column(x, j)) = 1

\* queries (n_q, d), keys (n_k, d), values (n_k, d_v)
ValidQK(q, k) == Is2D(q) /\ Is2D(k) /\ q.shape[2] = k.shape[2]
ValidQKV(q, k, v) == ValidQK(q, k) /\ Is2D(v) /\ k.shape[1] = v.shape[1]

----------------------------------------------------------------------------
\* C1: for a 2-dimensional x, softmax(x, axis) returns an array of the shape
\* of x whose entries lie in [0,1] and whose rows (axis 1) or columns (axis 0)
\* each sum to 1.
C1_SoftmaxDistribution ==
    (call.fn = "softmax" /\ Is2D(call.before[1])) =>
        /\ call.exc = "none"
        /\ call.ret.tag = "ndarray"
        /\ call.ret.shape = call.before[1].shape
        /\ \A k \in 1..Len(call.ret.data) : call.ret.data[k] \in 0..1
        /\ SumsToOneAlong(call.ret, call.before[2])

\* C2: for queries (n_q, d) and keys (n_k, d), calculate_weights passes its
\* assertion and returns weights of shape (n_q, n_k) whose rows each sum to 1.
C2_WeightsRowsSumToOne ==
    (call.fn = "calculate_weights" /\ ValidQK(call.before[1], call.before[2])) =>
        /\ call.exc = "none"
        /\ call.ret.tag = "ndarray"
        /\ call.ret.shape = <<call.before[1].shape[1], call.before[2].shape[1]>>
        /\ SumsToOneAlong(call.ret, 1)

\* C3: for valid queries, keys and values, attention_qkv returns an array of
\* shape (rows(queries), cols(values)).
C3_AttentionShape ==
    (call.fn = "attention_qkv"
        /\ ValidQKV(call.before[1], call.before[2], call.before[3])) =>
        /\ call.exc = "none"
        /\ call.ret.tag = "ndarray"
        /\ call.ret.shape = <<call.before[1].shape[1], call.before[3].shape[2]>>

\* C4: attention_qkv raises, and returns nothing, when keys and values differ
\* in their number of rows or queries and keys in their number of columns.
C4_ShapeMismatchRaises ==
    (call.fn = "attention_qkv"
        /\ Is2D(call.before[1]) /\ Is2D(call.before[2]) /\ Is2D(call.before[3])
        /\ ~ValidQKV(call.before[1], call.before[2], call.before[3])) =>
        /\ call.exc # "none"
        /\ call.ret = None

\* C5: softmax raises when x is not 2-dimensional and raises nothing when x is
\* a 2-dimensional array.
C5_SoftmaxInvalidShape ==
    call.fn = "softmax" =>
        (call.exc # "none" <=> ~Is2D(call.before[1]))

\* The pieces of the lowercased sentence, by the positions of its spaces.
SpacePositions(chars) == {i \in 1..Len(chars) : chars[i] = " "}

\* the k-th space of the sentence; 0 before the first, Len + 1 after the last
NthSpace(chars, k) ==
    IF k = 0 THEN 0
    ELSE IF k > Cardinality(SpacePositions(chars)) THEN Len(chars) + 1
    ELSE CHOOSE p \in SpacePositions(chars) :
            Cardinality({q \in SpacePositions(chars) : q < p}) = k - 1

Piece(chars, i) ==
    LET from == NthSpace(chars, i - 1) + 1
        to == NthSpace(chars, i) - 1
    IN  [k \in 1..(to - from + 1) |-> LowerChar(chars[from + k - 1])]

\* C6: tokenize never raises and returns one entry per space-separated piece
\* of the lowercased sentence, in order: the mapping's value for a piece that
\* is a key of the mapping, -1 for any other piece.
C6_TokenizeContract ==
    call.fn = "tokenize" =>
        LET chars == call.before[1].chars
            map == call.before[2].map
            n == Cardinality(SpacePositions(chars)) + 1
        IN  /\ call.exc = "none"
            /\ call.ret.tag = "list"
            /\ Len(call.ret.items) = n
            /\ \A i \in 1..n :
                  call.ret.items[i] =
                      IF \E w \in DOMAIN map : w = Piece(chars, i)
                      THEN map[CHOOSE w \in DOMAIN map : w = Piece(chars, i)]
                      ELSE -1

\* a sentence of several pieces, a known one and an unknown one among them
C6_Witness ==
    /\ call.fn = "tokenize"
    /\ call.exc = "none"
    /\ Len(call.ret.items) >= 2
    /\ \E i \in 1..Len(call.ret.items) :
          /\ Piece(call.before[1].chars, i) \in DOMAIN call.before[2].map
          /\ call.ret.items[i] # -1
    /\ \E i \in 1..Len(call.ret.items) :
          Piece(call.before[1].chars, i) \notin DOMAIN call.before[2].map

\* the result the claim describes: shape (len(tokens), embedding_dim), a row of
\* zeros for -1 and the table's row otherwise (negative indices from the end)
EmbedReturnsRows(c) ==
    LET toks == c.before[1].items
        tab == c.before[2]
        n == tab.shape[1]
        w == tab.shape[2]
    IN  /\ c.exc = "none"
        /\ c.ret.tag = "ndarray"
        /\ c.ret.shape = <<Len(toks), w>>
        /\ \A i \in 1..Len(toks), j \in 1..w :
              c.ret.data[(i - 1) * w + j] =
                  IF toks[i] = -1 THEN 0
                  ELSE IF toks[i] >= 0 THEN tab.data[toks[i] * w + j]
                  ELSE tab.data[(toks[i] + n) * w + j]

TokensIndexTable(c) ==
    \A i \in 1..Len(c.before[1].items) :
        \/ c.before[1].items[i] = -1
        \/ /\ c.before[1].items[i] >= -c.before[2].shape[1]
           /\ c.before[1].items[i] < c.before[2].shape[1]

\* C7 as stated: for every token sequence tokenize produced and every
\* embedding table, embed returns the matrix of shape (len(tokens),
\* embedding_dim) with a zero row for -1 and embeddings[tokens[i]] otherwise.
C7_EmbedTotal ==
    call.fn = "embed" => EmbedReturnsRows(call)

\* C7 as amended: embed returns that matrix when every token other than -1
\* is an index of the table (-rows <= token < rows); when some token is not,
\* it raises IndexError and returns nothing.
C7_EmbedInRange ==
    call.fn = "embed" =>
        IF TokensIndexTable(call) THEN EmbedReturnsRows(call)
        ELSE call.exc = "IndexError" /\ call.ret = None

\* an embedding of an unknown word beside a known one
C7_Witness ==
    /\ call.fn = "embed"
    /\ call.exc = "none"
    /\ \E i \in 1..Len(call.before[1].items) : call.before[1].items[i] = -1
    /\ \E i \in 1..Len(call.before[1].items) : call.before[1].items[i] >= 0

\* C8: attention_qkv obtains the weights from calculate_weights (similarity,
\* scaling, softmax) and only then multiplies them with values; that product
\* is its last step and its result.
C8_AttentionOrder ==
    (call.fn = "attention_qkv"
        /\ ValidQKV(call.before[1], call.before[2], call.before[3])) =>
        /\ Len(call.trace) >= 2
        /\ call.trace[Len(call.trace)] = "matmul"
        /\ \E i \in 1..(Len(call.trace) - 1) : call.trace[i] = "calculate_weights"
        /\ call.ret.tag = "ndarray"

Min(S) == CHOOSE m \in S : \A x \in S : m <= x
Max(S) == CHOOSE m \in S : \A x \in S : m >= x

\* C9: each entry of the attention output lies between the least and the
\* greatest entry of its column of values.
C9_ConvexCombination ==
    (call.fn = "attention_qkv"
        /\ ValidQKV(call.before[1], call.before[2], call.before[3])) =>
        LET v == call.before[3]
            col(j) == {Column(v, j)[i] : i \in 1..v.shape[1]}
        IN  /\ call.ret.tag = "ndarray"
            /\ call.ret.shape = <<call.before[1].shape[1], v.shape[2]>>
            /\ \A i \in 1..call.ret.shape[1], j \in 1..v.shape[2] :
                  /\ call.ret.data[(i - 1) * v.shape[2] + j] >= Min(col(j))
                  /\ call.ret.data[(i - 1) * v.shape[2] + j] <= Max(col(j))

\* one cell: its call leaves its arguments and every other global as they
\* were, and returns what the same call with equal arguments returned before
PureStep ==
    /\ call'.after = call'.before
    /\ sentence' = sentence
    /\ token_mapping' = token_mapping
    /\ embeddings' = embeddings
    /\ queries' = queries /\ keys' = keys /\ values' = values
    /\ call'.fn # "tokenize" => tokenized' = tokenized
    /\ call'.fn # "embed" => embedded' = embedded
    /\ prev'.fn # "none" => (prev'.ret = call'.ret /\ prev'.exc = call'.exc)

====
